---------------------------- MODULE Spec2Model ----------------------------
(***************************************************************************)
(* Model of devops/nginx/render_config.py: one invocation of the template  *)
(* renderer.  Text (paths, file contents, keys, values) is a sequence of   *)
(* one-character strings.  The file system is a function from the paths    *)
(* that exist to their content; os.environ is a function from the keys     *)
(* that are set to their values.  An optional value (Python None or a      *)
(* string) is <<>> for None and <<s>> for the string s.                    *)
(***************************************************************************)
EXTENDS Integers, Sequences, FiniteSets, TLC

VARIABLES
    argv,           \* sys.argv[1:], a sequence of texts
    fs,             \* path -> content, for the files that exist
    unreadable,     \* paths whose open(.., 'r') raises
    unwritable,     \* paths whose open(.., 'w') raises
    writeFault,     \* TRUE when the device fails f.write (ENOSPC, EIO)
    environ,        \* os.environ
    pc,             \* position in main / render_template
    template_file,  \* main's local, a text
    output_file,    \* optional text
    env_file,       \* optional text
    content,        \* template text read at line 29
    rendered,       \* result of re.sub at line 45
    stdout,         \* lines printed to standard output
    stderr,         \* records printed to the error stream
    opens,          \* every open() call made so far, in order
    exitCode,       \* optional exit code: <<>> while running
    fs0,            \* the file system before the invocation
    environ0        \* os.environ before the invocation

vars == <<argv, fs, unreadable, unwritable, writeFault, environ, pc,
          template_file, output_file, env_file, content, rendered,
          stdout, stderr, opens, exitCode, fs0, environ0>>

-----------------------------------------------------------------------------
(* Bounds of the checked instances.                                        *)

MaxFileLen == 6
MaxTplPieces == 4
MaxPathPieces == 3

-----------------------------------------------------------------------------
(* Text helpers: what the Python str methods used by the script compute.   *)

None == <<>>
Some(s) == <<s>>

Whitespace == {" ", "\n", "\t"}

SeqsUpTo(S, n) == UNION {[1..k -> S] : k \in 0..n}

RECURSIVE Flatten(_)
Flatten(ss) == IF ss = <<>> THEN <<>> ELSE Head(ss) \o Flatten(Tail(ss))

\* s[i:] in Python terms, with i a 1-based index
From(s, i) == SubSeq(s, i, Len(s))

\* str.startswith(m) at offset i (1-based)
StartsAt(s, i, m) ==
    /\ i + Len(m) - 1 <= Len(s)
    /\ \A k \in 1..Len(m) : s[i + k - 1] = m[k]

\* m in s
Contains(s, m) == \E i \in 1..(Len(s) + 1) : StartsAt(s, i, m)

RECURSIVE LStrip(_)
LStrip(s) ==
    IF s # <<>> /\ Head(s) \in Whitespace THEN LStrip(Tail(s)) ELSE s

RECURSIVE RStrip(_)
RStrip(s) ==
    IF s # <<>> /\ s[Len(s)] \in Whitespace
    THEN RStrip(SubSeq(s, 1, Len(s) - 1))
    ELSE s

\* str.strip()
Strip(s) == RStrip(LStrip(s))

\* str.find(c) for a single character, 1-based, 0 when absent
RECURSIVE FindChar(_, _, _)
FindChar(s, c, i) ==
    IF i > Len(s) THEN 0
    ELSE IF s[i] = c THEN i
    ELSE FindChar(s, c, i + 1)

\* iteration over a text file: each line keeps its terminating newline
RECURSIVE FileLines(_)
FileLines(c) ==
    IF c = <<>> THEN <<>>
    ELSE LET n == FindChar(c, "\n", 1)
         IN  IF n = 0 THEN <<c>>
             ELSE <<SubSeq(c, 1, n)>> \o FileLines(From(c, n + 1))

\* str.rfind(c) for a single character, 1-based, 0 when absent
RECURSIVE RFindChar(_, _, _)
RFindChar(s, c, i) ==
    IF i < 1 THEN 0
    ELSE IF s[i] = c THEN i
    ELSE RFindChar(s, c, i - 1)

\* faulty variant: line.rsplit('=', 1)
SplitLastEq(line) ==
    LET i == RFindChar(line, "=", Len(line))
    IN  <<SubSeq(line, 1, i - 1), From(line, i + 1)>>

\* line.split('=', 1) for a line that contains '='
SplitFirstEq(line) ==
    LET i == FindChar(line, "=", 1)
    IN  <<SubSeq(line, 1, i - 1), From(line, i + 1)>>

\* the test of line 21
IsAssignment(line) ==
    /\ line # <<>>
    /\ Head(line) # "#"
    /\ FindChar(line, "=", 1) # 0

-----------------------------------------------------------------------------
(* Lines 19-25: the loop over the supplementary file.  The result is the   *)
(* environment after the loop and whether os.environ[key] = value raised   *)
(* (an empty key is rejected by putenv), which ends the loop.              *)

\* faulty variant: the assignment without the test of line 24
SetEnvAlways(env, key, value) == (key :> value) @@ env

SetEnvIfAbsent(env, key, value) ==
    IF key \in DOMAIN env THEN env ELSE (key :> value) @@ env

RECURSIVE LoadLines(_, _)
LoadLines(env, lines) ==
    IF lines = <<>> THEN [env |-> env, raised |-> FALSE]
    ELSE LET line == Strip(Head(lines))
         IN  IF IsAssignment(line)
             THEN LET kv == SplitFirstEq(line)
                  IN  IF kv[1] = <<>>
                      THEN [env |-> env, raised |-> TRUE]
                      ELSE LoadLines(SetEnvIfAbsent(env, kv[1], kv[2]),
                                     Tail(lines))
             ELSE LoadLines(env, Tail(lines))

-----------------------------------------------------------------------------
(* Lines 31-45: the placeholder pattern and re.sub with replace_var.       *)

Upper == {"A", "B", "C", "D", "E", "F", "G", "H", "I", "J", "K", "L", "M",
          "N", "O", "P", "Q", "R", "S", "T", "U", "V", "W", "X", "Y", "Z"}
Digit == {"0", "1", "2", "3", "4", "5", "6", "7", "8", "9"}

\* [A-Z_] and [A-Z0-9_]
NameStart == Upper \cup {"_"}
NameChar == Upper \cup Digit \cup {"_"}

PlaceholderOpen == <<"$", "{", "{">>
PlaceholderClose == <<"}", "}">>

\* the greedy [A-Z0-9_]* : the first index from k on that is not a name
\* character (Len(s) + 1 when the name runs to the end of the text)
RECURSIVE ScanName(_, _)
ScanName(s, k) ==
    IF k <= Len(s) /\ s[k] \in NameChar THEN ScanName(s, k + 1) ELSE k

\* pattern.match at index i: the index of the last character of the match,
\* or 0.  Backing off the greedy name cannot help, because the character
\* after a shorter name is a name character and not a closing brace.
pattern(s, i) ==
    IF /\ StartsAt(s, i, PlaceholderOpen)
       /\ i + 3 <= Len(s)
       /\ s[i + 3] \in NameStart
    THEN LET k == ScanName(s, i + 4)
         IN  IF StartsAt(s, k, PlaceholderClose) THEN k + 1 ELSE 0
    ELSE 0

Warning(var_name) == [kind |-> "warning", name |-> var_name]
ErrorLine == [kind |-> "error", name |-> <<>>]

\* faulty variant: a missing variable is replaced by the empty string
replace_var_blank(env, var_name, group0) ==
    IF var_name \notin DOMAIN env
    THEN [text |-> <<>>, warn |-> <<Warning(var_name)>>]
    ELSE [text |-> env[var_name], warn |-> <<>>]

\* faulty variant: "if not value" in place of "if value is None"
replace_var_falsy(env, var_name, group0) ==
    IF var_name \notin DOMAIN env \/ env[var_name] = <<>>
    THEN [text |-> group0, warn |-> <<Warning(var_name)>>]
    ELSE [text |-> env[var_name], warn |-> <<>>]

\* lines 34-42: the replacement text and the diagnostics it prints
replace_var(env, var_name, group0) ==
    IF var_name \notin DOMAIN env
    THEN [text |-> group0, warn |-> <<Warning(var_name)>>]
    ELSE [text |-> env[var_name], warn |-> <<>>]

\* faulty variant: re.sub(pattern, replace_var, content, count=1)
re_sub_once(env, s, i) ==
    LET first == {k \in i..Len(s) : pattern(s, k) # 0}
    IN  IF first = {} THEN [text |-> From(s, i), warn |-> <<>>]
        ELSE LET b == CHOOSE k \in first : \A j \in first : k <= j
                 e == pattern(s, b)
                 r == replace_var(env, SubSeq(s, b + 3, e - 2),
                                  SubSeq(s, b, e))
             IN  [text |-> SubSeq(s, i, b - 1) \o r.text \o From(s, e + 1),
                  warn |-> r.warn]

\* line 45: re.sub(pattern, replace_var, content), scanning from index i
RECURSIVE re_sub(_, _, _)
re_sub(env, s, i) ==
    IF i > Len(s) THEN [text |-> <<>>, warn |-> <<>>]
    ELSE LET e == pattern(s, i)
         IN  IF e = 0
             THEN LET rest == re_sub(env, s, i + 1)
                  IN  [text |-> <<s[i]>> \o rest.text, warn |-> rest.warn]
             ELSE LET r == replace_var(env, SubSeq(s, i + 3, e - 2),
                                       SubSeq(s, i, e))
                      rest == re_sub(env, s, e + 1)
                  IN  [text |-> r.text \o rest.text,
                       warn |-> r.warn \o rest.warn]

-----------------------------------------------------------------------------
(* Lines 47-52: the output path.                                           *)

DashTemplate == <<"-", "t", "e", "m", "p", "l", "a", "t", "e">>
DotTemplate == <<".", "t", "e", "m", "p", "l", "a", "t", "e">>

\* faulty variant: str.replace(m, '', 1)
RECURSIVE StrRemoveFirst(_, _)
StrRemoveFirst(s, m) ==
    IF s = <<>> THEN <<>>
    ELSE IF StartsAt(s, 1, m) THEN From(s, Len(m) + 1)
    ELSE <<Head(s)>> \o StrRemoveFirst(Tail(s), m)

\* str.replace(m, ''): every occurrence found scanning left to right
RECURSIVE StrRemove(_, _)
StrRemove(s, m) ==
    IF s = <<>> THEN <<>>
    ELSE IF StartsAt(s, 1, m) THEN StrRemove(From(s, Len(m) + 1), m)
    ELSE <<Head(s)>> \o StrRemove(Tail(s), m)

DetermineOutputFile(tpl, out) ==
    IF out # None THEN out[1]
    ELSE IF Contains(tpl, DashTemplate) THEN StrRemove(tpl, DashTemplate)
    ELSE StrRemove(tpl, DotTemplate)

-----------------------------------------------------------------------------
(* The invocation: main (lines 61-82) calling render_template (6-59).      *)

DotEnv == <<".", "e", "n", "v">>

\* the character a non-UTF-8 byte of the environment decodes to; the
\* output file's encoder rejects it
Surrogate == "\\udcff"

Encodable(s) == \A i \in 1..Len(s) : s[i] # Surrogate

\* open(path, 'r') followed by reading: None when open raises
OpenRead(files, ur, path) ==
    IF path \in DOMAIN files /\ path \notin ur THEN Some(files[path])
    ELSE None

\* faulty variant: "if env_file:" without the existence test
ShouldLoadIfGiven(ef, files) == ef # None /\ ef[1] # <<>>

\* line 17: env_file and os.path.exists(env_file)
ShouldLoad(ef, files) == ef # None /\ ef[1] # <<>> /\ ef[1] \in DOMAIN files

\* faulty variant: main without the test of line 74
TemplateAssumed(files, path) == TRUE

\* line 74: os.path.exists(template_file)
TemplateExists(files, path) == path \in DOMAIN files

\* the except clause of lines 80-82
Fatal ==
    /\ stderr' = Append(stderr, ErrorLine)
    /\ exitCode' = Some(1)
    /\ pc' = "exit"

\* lines 62-76
Main ==
    /\ pc = "main"
    /\ IF Len(argv) < 1
       THEN /\ stdout' = Append(stdout, "usage")
            /\ exitCode' = Some(1)
            /\ pc' = "exit"
            /\ UNCHANGED <<template_file, output_file, env_file, stderr>>
       ELSE /\ template_file' = argv[1]
            /\ output_file' = IF Len(argv) > 1 THEN Some(argv[2]) ELSE None
            /\ env_file' = IF Len(argv) > 2 THEN Some(argv[3])
                           ELSE Some(DotEnv)
            /\ IF TemplateExists(fs, argv[1])
               THEN pc' = "load" /\ UNCHANGED <<stdout, stderr, exitCode>>
               ELSE Fatal /\ UNCHANGED stdout
    /\ UNCHANGED <<argv, fs, unreadable, unwritable, writeFault, environ,
                   content, rendered, opens, fs0, environ0>>

\* lines 17-25
LoadEnvFile ==
    /\ pc = "load"
    /\ IF ShouldLoad(env_file, fs)
       THEN /\ opens' = Append(opens, <<env_file[1], "r">>)
            /\ IF OpenRead(fs, unreadable, env_file[1]) = None
               THEN Fatal /\ UNCHANGED environ
               ELSE LET f == OpenRead(fs, unreadable, env_file[1])[1]
                        r == LoadLines(environ, FileLines(f))
                    IN  /\ environ' = r.env
                        /\ IF r.raised
                           THEN Fatal
                           ELSE /\ pc' = "read"
                                /\ UNCHANGED <<stderr, exitCode>>
       ELSE /\ pc' = "read"
            /\ UNCHANGED <<opens, environ, stderr, exitCode>>
    /\ UNCHANGED <<argv, fs, unreadable, unwritable, writeFault,
                   template_file, output_file, env_file, content, rendered,
                   stdout, fs0, environ0>>

\* lines 28-29
ReadTemplate ==
    /\ pc = "read"
    /\ opens' = Append(opens, <<template_file, "r">>)
    /\ IF OpenRead(fs, unreadable, template_file) = None
       THEN Fatal /\ UNCHANGED content
       ELSE /\ content' = OpenRead(fs, unreadable, template_file)[1]
            /\ pc' = "subst"
            /\ UNCHANGED <<stderr, exitCode>>
    /\ UNCHANGED <<argv, fs, unreadable, unwritable, writeFault, environ,
                   template_file, output_file, env_file, rendered, stdout,
                   fs0, environ0>>

\* lines 32-45
Substitute ==
    /\ pc = "subst"
    /\ LET r == re_sub(environ, content, 1)
       IN  /\ rendered' = r.text
           /\ stderr' = stderr \o r.warn
    /\ pc' = "derive"
    /\ UNCHANGED <<argv, fs, unreadable, unwritable, writeFault, environ,
                   template_file, output_file, env_file, content, stdout,
                   opens, exitCode, fs0, environ0>>

\* lines 48-52
DetermineOutput ==
    /\ pc = "derive"
    /\ output_file' = Some(DetermineOutputFile(template_file, output_file))
    /\ pc' = "open"
    /\ UNCHANGED <<argv, fs, unreadable, unwritable, writeFault, environ,
                   template_file, env_file, content, rendered, stdout,
                   stderr, opens, exitCode, fs0, environ0>>

\* line 55: open(output_file, 'w') creates the file or truncates it
OpenOutput ==
    /\ pc = "open"
    /\ opens' = Append(opens, <<output_file[1], "w">>)
    /\ IF output_file[1] = <<>> \/ output_file[1] \in unwritable
       THEN Fatal /\ UNCHANGED fs
       ELSE /\ fs' = (output_file[1] :> <<>>) @@ fs
            /\ pc' = "write"
            /\ UNCHANGED <<stderr, exitCode>>
    /\ UNCHANGED <<argv, unreadable, unwritable, writeFault, environ,
                   template_file, output_file, env_file, content, rendered,
                   stdout, fs0, environ0>>

\* lines 56-59 and the normal return of main.  The text is encoded as a
\* whole, so a rejected character leaves the file empty; a device fault
\* stops the write after any proper prefix.
WriteOutput ==
    /\ pc = "write"
    /\ IF ~Encodable(rendered)
       THEN Fatal /\ UNCHANGED <<fs, stdout>>
       ELSE IF writeFault /\ rendered # <<>>
       THEN /\ \E n \in 0..(Len(rendered) - 1) :
                 fs' = (output_file[1] :> SubSeq(rendered, 1, n)) @@ fs
            /\ Fatal
            /\ UNCHANGED stdout
       ELSE /\ fs' = (output_file[1] :> rendered) @@ fs
            /\ stdout' = Append(stdout, "rendered")
            /\ exitCode' = Some(0)
            /\ pc' = "exit"
            /\ UNCHANGED stderr
    /\ UNCHANGED <<argv, unreadable, unwritable, writeFault, environ,
                   template_file, output_file, env_file, content, rendered,
                   opens, fs0, environ0>>

Next ==
    \/ Main
    \/ LoadEnvFile
    \/ ReadTemplate
    \/ Substitute
    \/ DetermineOutput
    \/ OpenOutput
    \/ WriteOutput

\* the state in which the interpreter enters main
Start(args, files, env, ur, uw, wf) ==
    /\ argv = args
    /\ fs = files
    /\ fs0 = files
    /\ environ = env
    /\ environ0 = env
    /\ unreadable = ur
    /\ unwritable = uw
    /\ writeFault = wf
    /\ pc = "main"
    /\ template_file = <<>>
    /\ output_file = None
    /\ env_file = None
    /\ content = <<>>
    /\ rendered = <<>>
    /\ stdout = <<>>
    /\ stderr = <<>>
    /\ opens = <<>>
    /\ exitCode = None

NoEnv == [k \in {} |-> <<>>]

-----------------------------------------------------------------------------
(* Invocations with fault injection: every exit path of main.              *)

PathA == <<"a">> \o DashTemplate
PathB == <<"b">>
PathO == <<"o">>
PathE == <<"e">>

TplPaths == {PathA, PathB}
EnvPaths == {DotEnv, PathE}
OutPaths == {PathO, <<"a">>}

PhA == PlaceholderOpen \o <<"A">> \o PlaceholderClose
PhB == PlaceholderOpen \o <<"B">> \o PlaceholderClose
PhM == PlaceholderOpen \o <<"M">> \o PlaceholderClose

TplTexts == {<<>>, <<"k", "=">> \o PhM, PhA \o PhM \o PhM,
             PhA \o <<":">> \o PhB}
EnvTexts == {<<"A", "=", "1">>, <<"B", "=", "2", "\n", "A", "=", "3", "\n">>,
             <<"#", "c", "\n", "\n", "M", "=", "m", "=", "m">>}
OldTexts == {<<"o", "l", "d">>}

Environs == {NoEnv,
             (<<"A">> :> <<"h">>),
             (<<"A">> :> <<>>) @@ (<<"B">> :> <<"p">>),
             (<<"A">> :> <<Surrogate>>)}

Optional(S) == {None} \cup {Some(x) : x \in S}

Files(tc, ec, oc) ==
    [p \in (IF tc # None THEN TplPaths ELSE {})
           \cup (IF ec # None THEN EnvPaths ELSE {})
           \cup (IF oc # None THEN OutPaths ELSE {})
     |-> IF p \in TplPaths THEN tc[1]
         ELSE IF p \in EnvPaths THEN ec[1]
         ELSE oc[1]]

Argvs ==
    {<<>>} \cup {<<t>> : t \in TplPaths}
           \cup {<<t, PathO>> : t \in TplPaths}
           \cup {<<t, PathO, PathE>> : t \in TplPaths}

Init ==
    \E args \in Argvs, tc \in Optional(TplTexts), ec \in Optional(EnvTexts),
       oc \in Optional(OldTexts), env \in Environs,
       ur \in {{}, TplPaths, EnvPaths}, uw \in {{}, OutPaths \cup TplPaths},
       wf \in BOOLEAN :
        Start(args, Files(tc, ec, oc), env, ur, uw, wf)

Spec == Init /\ [][Next]_vars

-----------------------------------------------------------------------------
(* Loading: every supplementary file over a small alphabet.                *)

LoadAlphabet == {"A", "=", "#", " ", "\n"}
LoadEnvs == {NoEnv, (<<"A">> :> <<"#">>), (<<"A">> :> <<>>)}

InitLoad ==
    \E c \in SeqsUpTo(LoadAlphabet, MaxFileLen), env \in LoadEnvs :
        Start(<<PathB, PathO, PathE>>, (PathB :> <<>>) @@ (PathE :> c),
              env, {}, {}, FALSE)

NextLoad == Main \/ LoadEnvFile

SpecLoad == InitLoad /\ [][NextLoad]_vars

-----------------------------------------------------------------------------
(* Substitution: templates put together from placeholders and fragments.   *)

TplPieces == {PhA, PhB, PlaceholderOpen, PlaceholderClose,
              <<"A">>, <<"a">>, <<"1">>, <<"$">>}
SubstEnvs == {NoEnv,
              (<<"A">> :> <<>>),
              (<<"B">> :> <<"y">>),
              (<<"A">> :> <<"x">>) @@ (<<"B">> :> <<"y">>),
              (<<"A">> :> PhB),
              (<<"A">> :> PhB) @@ (<<"B">> :> <<"y">>)}

InitSubst ==
    \E ps \in SeqsUpTo(TplPieces, MaxTplPieces), env \in SubstEnvs :
        Start(<<PathB, PathO>>, (PathB :> Flatten(ps)), env, {}, {}, FALSE)

SpecSubst == InitSubst /\ [][Next]_vars

-----------------------------------------------------------------------------
(* Output paths: template paths put together from markers and fragments.   *)

PathPieces == {<<"a">>, DashTemplate, DotTemplate, <<".", "c">>,
               <<"-", "t", "e", "m", "p">>, <<"l", "a", "t", "e">>}
ExplicitOutputs == {PathO, <<>>}

InitPath ==
    \E ps \in SeqsUpTo(PathPieces, MaxPathPieces) \ {<<>>},
       out \in Optional(ExplicitOutputs) :
        Start(<<Flatten(ps)>> \o out, (Flatten(ps) :> <<>>), NoEnv,
              {}, {}, FALSE)

NextPath ==
    \/ Main
    \/ LoadEnvFile
    \/ ReadTemplate
    \/ Substitute
    \/ DetermineOutput

SpecPath == InitPath /\ [][NextPath]_vars

-----------------------------------------------------------------------------
(* Properties of the loading step, checked under SpecLoad.  They speak of  *)
(* the lines of the supplementary file as the loader sees them (with the   *)
(* surrounding whitespace trimmed) and of a line's key and value as the    *)
(* texts on either side of its first '='.                                  *)

LoadFinished == pc = "read"

SupplementaryLines ==
    LET raw == FileLines(fs0[env_file[1]])
    IN  [i \in 1..Len(raw) |-> Strip(raw[i])]

HasEq(L) == \E i \in 1..Len(L) : L[i] = "="

FirstEq(L) ==
    CHOOSE i \in 1..Len(L) : L[i] = "=" /\ \A j \in 1..(i - 1) : L[j] # "="

KeyOf(L) == SubSeq(L, 1, FirstEq(L) - 1)
ValueOf(L) == SubSeq(L, FirstEq(L) + 1, Len(L))

IsBlank(L) == L = <<>>
IsComment(L) == L # <<>> /\ L[1] = "#"
IsPair(L) == ~IsBlank(L) /\ ~IsComment(L) /\ HasEq(L)

\* the lines of the file that give a value to key k, in file order
LinesNaming(k) ==
    {i \in 1..Len(SupplementaryLines) :
        IsPair(SupplementaryLines[i]) /\ KeyOf(SupplementaryLines[i]) = k}

FileKeys ==
    {KeyOf(SupplementaryLines[i]) :
        i \in {j \in 1..Len(SupplementaryLines) : IsPair(SupplementaryLines[j])}}

FirstOf(S) == CHOOSE i \in S : \A j \in S : i <= j
LastOf(S) == CHOOSE i \in S : \A j \in S : j <= i

\* C1: every key of the environment before loading keeps its value, whatever
\* the supplementary file contains.
C1_Precedence ==
    \A k \in DOMAIN environ0 :
        k \in DOMAIN environ /\ environ[k] = environ0[k]

\* the file has been loaded and one of its lines gives another value to a
\* key the environment already had
C1_Witness ==
    /\ LoadFinished
    /\ \E k \in DOMAIN environ0 : \E i \in LinesNaming(k) :
           ValueOf(SupplementaryLines[i]) # environ0[k]

\* C2 as stated: a key absent from the environment that the file names on
\* more than one line ends with the value of its last line.
C2_LastOccurrenceWins ==
    LoadFinished =>
        \A k \in FileKeys :
            (k \notin DOMAIN environ0 /\ Cardinality(LinesNaming(k)) > 1) =>
                /\ k \in DOMAIN environ
                /\ environ[k] = ValueOf(SupplementaryLines[LastOf(LinesNaming(k))])

\* C2 amended: a key absent from the environment that the file names on
\* more than one line ends with the value of its first line; the later
\* lines find the key present and are ignored.
C2_FirstOccurrenceWins ==
    LoadFinished =>
        \A k \in FileKeys :
            (k \notin DOMAIN environ0 /\ Cardinality(LinesNaming(k)) > 1) =>
                /\ k \in DOMAIN environ
                /\ environ[k] = ValueOf(SupplementaryLines[FirstOf(LinesNaming(k))])

\* a loaded file that names a new key twice, with different values
C2_Witness ==
    /\ LoadFinished
    /\ \E k \in FileKeys :
        /\ k \notin DOMAIN environ0
        /\ Cardinality(LinesNaming(k)) > 1
        /\ ValueOf(SupplementaryLines[FirstOf(LinesNaming(k))])
             # ValueOf(SupplementaryLines[LastOf(LinesNaming(k))])

\* C6: a line that is not blank, not a comment and contains '=' is split at
\* its first '=': the key is the text before it and the value all the text
\* after it, further '=' included, and that value is what a new key gets
\* from the first line naming it; blank lines and comment lines add nothing,
\* so the keys after loading are the old keys and the keys of such lines.
C6_FirstEqParsing ==
    LoadFinished =>
        /\ \A i \in 1..Len(SupplementaryLines) :
              LET L == SupplementaryLines[i]
              IN  IsPair(L) =>
                    /\ KeyOf(L) \in DOMAIN environ
                    /\ (KeyOf(L) \notin DOMAIN environ0
                          /\ i = FirstOf(LinesNaming(KeyOf(L))))
                       => environ[KeyOf(L)] = ValueOf(L)
        /\ DOMAIN environ = DOMAIN environ0 \cup FileKeys

\* a loaded file with a blank line or a comment, and a line whose value
\* itself contains '=' and has been stored
C6_Witness ==
    /\ LoadFinished
    /\ \E i \in 1..Len(SupplementaryLines) :
          IsBlank(SupplementaryLines[i]) \/ IsComment(SupplementaryLines[i])
    /\ \E i \in 1..Len(SupplementaryLines) :
          LET L == SupplementaryLines[i]
          IN  /\ IsPair(L)
              /\ HasEq(ValueOf(L))
              /\ environ[KeyOf(L)] = ValueOf(L)
              /\ KeyOf(L) \notin DOMAIN environ0

-----------------------------------------------------------------------------
(* Properties of the substitution, checked under SpecSubst.  A placeholder *)
(* occurrence is described by what it looks like, independently of the     *)
(* scan: <<i, j>> is an occurrence in s when s[i..j] is "${{", a name and  *)
(* "}}".  Two occurrences never overlap, since "$" is not part of a name.  *)

IsNameFirst(c) == c \in Upper \/ c = "_"
IsNameRest(c) == c \in Upper \/ c \in Digit \/ c = "_"

IsPlaceholderAt(s, i, j) ==
    /\ s[i] = "$"
    /\ i + 5 <= j
    /\ j <= Len(s)
    /\ s[i + 1] = "{" /\ s[i + 2] = "{"
    /\ s[j - 1] = "}" /\ s[j] = "}"
    /\ IsNameFirst(s[i + 3])
    /\ \A k \in (i + 4)..(j - 2) : IsNameRest(s[k])

Placeholders(s) ==
    UNION {{<<i, j>> : j \in {j \in (i + 5)..Len(s) : IsPlaceholderAt(s, i, j)}} :
             i \in {i \in 1..Len(s) : s[i] = "$"}}

NameOf(s, o) == SubSeq(s, o[1] + 3, o[2] - 2)
TokenOf(s, o) == SubSeq(s, o[1], o[2])

Resolved(env, s, occ) == {o \in occ : NameOf(s, o) \in DOMAIN env}
Unresolved(env, s, occ) == {o \in occ : NameOf(s, o) \notin DOMAIN env}

\* what position p of the template contributes to the output
PieceAt(env, s, occ, p) ==
    IF \E o \in occ : o[1] = p
    THEN LET o == CHOOSE o \in occ : o[1] = p
         IN  IF NameOf(s, o) \in DOMAIN env THEN env[NameOf(s, o)]
             ELSE TokenOf(s, o)
    ELSE IF \E o \in occ : o[1] < p /\ p <= o[2] THEN <<>>
    ELSE <<s[p]>>

ExpectedText(env, s) ==
    LET occ == Placeholders(s)
    IN  Flatten([p \in 1..Len(s) |-> PieceAt(env, s, occ, p)])

ExpectedWarnings(env, s) ==
    LET occ == Unresolved(env, s, Placeholders(s))
    IN  Flatten([p \in 1..Len(s) |->
                   IF \E o \in occ : o[1] = p
                   THEN <<Warning(NameOf(s, CHOOSE o \in occ : o[1] = p))>>
                   ELSE <<>>])

\* the change of length caused by replacing the occurrences of S
RECURSIVE Growth(_, _, _)
Growth(env, s, S) ==
    IF S = {} THEN 0
    ELSE LET o == CHOOSE o \in S : TRUE
         IN  Len(env[NameOf(s, o)]) - Len(TokenOf(s, o))
               + Growth(env, s, S \ {o})

Substituted == pc = "derive"

\* C4: the result of the substitution is the template with each well-formed
\* placeholder whose name is set replaced by its value, each occurrence of
\* a repeated placeholder included, and every other character copied: text
\* without placeholders, malformed and lowercase tokens, and the content of
\* a value, which is not scanned again.
C4_SinglePass ==
    Substituted => rendered = ExpectedText(environ, content)

\* the substitution has replaced two occurrences of a placeholder whose
\* value is itself a placeholder of a variable that is set, next to text
\* that is not a placeholder
C4_Witness ==
    /\ Substituted
    /\ LET occ == Placeholders(content)
       IN  /\ \E o1 \in occ, o2 \in occ :
                /\ o1[1] < o2[1]
                /\ NameOf(content, o1) = NameOf(content, o2)
                /\ NameOf(content, o1) \in DOMAIN environ
                /\ \E v \in Placeholders(environ[NameOf(content, o1)]) :
                      NameOf(environ[NameOf(content, o1)], v) \in DOMAIN environ
           /\ \E p \in 1..Len(content) :
                \A o \in occ : p < o[1] \/ o[2] < p

\* C5: each occurrence of a placeholder whose name is not set stays in the
\* output as it is, at the place the replacements before it leave it, and
\* causes one diagnostic naming it, so the diagnostics are the names of the
\* unresolved occurrences in order; the run goes on, writes the output and
\* exits with code 0.
C5_MissingVariable ==
    /\ pc \in {"derive", "exit"} =>
          stderr = ExpectedWarnings(environ, content)
    /\ Substituted =>
          LET occ == Placeholders(content)
          IN  /\ Len(stderr) = Cardinality(Unresolved(environ, content, occ))
              /\ \A o \in Unresolved(environ, content, occ) :
                    LET at == o[1] + Growth(environ, content,
                                {r \in Resolved(environ, content, occ) :
                                     r[1] < o[1]})
                    IN  /\ 1 <= at
                        /\ at + (o[2] - o[1]) <= Len(rendered)
                        /\ SubSeq(rendered, at, at + (o[2] - o[1]))
                             = TokenOf(content, o)
    /\ pc = "exit" =>
          /\ exitCode = Some(0)
          /\ output_file[1] \in DOMAIN fs
          /\ fs[output_file[1]] = rendered

\* a finished run whose template had two unresolved occurrences after a
\* resolved one
C5_Witness ==
    /\ pc = "exit"
    /\ exitCode = Some(0)
    /\ LET occ == Placeholders(content)
       IN  \E r \in Resolved(environ, content, occ) :
             \E u1 \in Unresolved(environ, content, occ),
                u2 \in Unresolved(environ, content, occ) :
                 r[1] < u1[1] /\ u1[1] < u2[1]
    /\ Len(stderr) >= 2

\* C10: a name set to the empty string is resolved: no diagnostic names it
\* and its occurrences disappear from the output, so the output is shorter
\* than the template by the length of every resolved occurrence less the
\* length of its value; only the names that are absent cause diagnostics.
C10_EmptyValueResolves ==
    Substituted =>
        LET occ == Placeholders(content)
        IN  /\ \A k \in 1..Len(stderr) : stderr[k].name \notin DOMAIN environ
            /\ Len(rendered) = Len(content)
                 + Growth(environ, content, Resolved(environ, content, occ))

\* the substitution has met two occurrences of a placeholder whose name is
\* set to the empty string
C10_Witness ==
    /\ Substituted
    /\ \E o1 \in Placeholders(content), o2 \in Placeholders(content) :
         /\ o1 # o2
         /\ NameOf(content, o1) = NameOf(content, o2)
         /\ NameOf(content, o1) \in DOMAIN environ
         /\ environ[NameOf(content, o1)] = <<>>

-----------------------------------------------------------------------------
(* Properties of the output path, checked under SpecPath.  A marker occurs *)
(* at i when the characters from i on spell it.  Neither marker can        *)
(* overlap itself, because its first character occurs in it only once.     *)

MarkerAt(s, m, i) ==
    /\ 1 <= i
    /\ i + Len(m) - 1 <= Len(s)
    /\ SubSeq(s, i, i + Len(m) - 1) = m

MarkerStarts(s, m) == {i \in 1..Len(s) : MarkerAt(s, m, i)}

WithoutFirst(s, m) ==
    LET i == FirstOf(MarkerStarts(s, m))
    IN  SubSeq(s, 1, i - 1) \o SubSeq(s, i + Len(m), Len(s))

WithoutAll(s, m) ==
    LET starts == MarkerStarts(s, m)
    IN  Flatten([p \in 1..Len(s) |->
                   IF \E i \in starts : i <= p /\ p < i + Len(m)
                   THEN <<>>
                   ELSE <<s[p]>>])

PathDetermined == pc = "open"

\* C3 as stated: an explicit output path is used as it is; otherwise only
\* the first '-template' is removed from the template path, or, when there
\* is none, only the first '.template'; otherwise the path is unchanged.
C3_FirstOccurrenceRemoved ==
    PathDetermined =>
        output_file[1] =
            IF Len(argv) > 1 THEN argv[2]
            ELSE IF MarkerStarts(argv[1], DashTemplate) # {}
                 THEN WithoutFirst(argv[1], DashTemplate)
            ELSE IF MarkerStarts(argv[1], DotTemplate) # {}
                 THEN WithoutFirst(argv[1], DotTemplate)
            ELSE argv[1]

\* C3 amended: an explicit output path is used as it is; otherwise every
\* occurrence of '-template' is removed from the template path (and any
\* '.template' is kept), or, when there is no '-template', every occurrence
\* of '.template'; otherwise the path is unchanged.
C3_EveryOccurrenceRemoved ==
    PathDetermined =>
        output_file[1] =
            IF Len(argv) > 1 THEN argv[2]
            ELSE IF MarkerStarts(argv[1], DashTemplate) # {}
                 THEN WithoutAll(argv[1], DashTemplate)
            ELSE IF MarkerStarts(argv[1], DotTemplate) # {}
                 THEN WithoutAll(argv[1], DotTemplate)
            ELSE argv[1]

\* a path derived from a template path with two '-template' and one
\* '.template'
C3_Witness ==
    /\ PathDetermined
    /\ Len(argv) = 1
    /\ Cardinality(MarkerStarts(argv[1], DashTemplate)) = 2
    /\ MarkerStarts(argv[1], DotTemplate) # {}

-----------------------------------------------------------------------------
(* Properties of whole invocations, checked under Spec.                    *)

EnvPathOf(args) == IF Len(args) > 2 THEN args[3] ELSE DotEnv

EnvFileMissing == argv # <<>> /\ EnvPathOf(argv) \notin DOMAIN fs0

\* the failures an invocation can meet that have nothing to do with the
\* supplementary file
OtherFailure ==
    \/ argv[1] \notin DOMAIN fs0
    \/ argv[1] \in unreadable
    \/ unwritable # {}
    \/ writeFault /\ rendered # <<>>
    \/ ~Encodable(rendered)

\* C7: when the supplementary path, given or defaulted to '.env', does not
\* exist, the file is never opened, the environment stays as it was, the
\* step reports nothing, and the invocation goes on: unless something else
\* fails it writes the rendered template and exits with code 0.
C7_MissingEnvFileIsNoOp ==
    EnvFileMissing =>
        /\ environ = environ0
        /\ \A k \in 1..Len(opens) : opens[k][1] # EnvPathOf(argv)
        /\ pc = "read" => stderr = <<>> /\ exitCode = None
        /\ pc = "exit" =>
              \/ OtherFailure
              \/ /\ exitCode = Some(0)
                 /\ fs[output_file[1]] = ExpectedText(environ0, fs0[argv[1]])

\* a run without supplementary file that substituted something and ended
\* with code 0
C7_Witness ==
    /\ EnvFileMissing
    /\ pc = "exit"
    /\ exitCode = Some(0)
    /\ rendered # content
    /\ fs[output_file[1]] = rendered

EarlyFatal == argv = <<>> \/ argv[1] \notin DOMAIN fs0

\* C8: without the template argument, or with a template path that does not
\* exist, the invocation ends with exit code 1 straight from main: no file
\* has been opened, the environment and the file system are as they were.
C8_EarlyFatalNoSideEffects ==
    EarlyFatal =>
        /\ pc \in {"main", "exit"}
        /\ pc = "exit" => exitCode = Some(1)
        /\ (pc = "exit" /\ argv = <<>>) => stdout = <<"usage">>
        /\ opens = <<>>
        /\ environ = environ0
        /\ fs = fs0

\* the template is missing while a supplementary file and an older output
\* file exist, and the invocation has ended
C8_Witness ==
    /\ pc = "exit"
    /\ argv # <<>>
    /\ argv[1] \notin DOMAIN fs0
    /\ EnvPathOf(argv) \in DOMAIN fs0
    /\ PathO \in DOMAIN fs0

\* C9: when the invocation has ended, every file is as it was before, or is
\* the output file holding the complete rendered document; the output was
\* opened for writing at most once, after the substitution; and a reported
\* failure goes with exit code 1.
C9_NoPartialOutput ==
    pc = "exit" =>
        /\ \A p \in DOMAIN fs \cup DOMAIN fs0 :
              \/ p \in DOMAIN fs /\ p \in DOMAIN fs0 /\ fs[p] = fs0[p]
              \/ /\ output_file = Some(p)
                 /\ p \in DOMAIN fs
                 /\ fs[p] = ExpectedText(environ, content)
        /\ Cardinality({k \in 1..Len(opens) : opens[k][2] = "w"}) <= 1
        /\ (\E k \in 1..Len(stderr) : stderr[k] = ErrorLine)
              => exitCode = Some(1)

=============================================================================
